---- MODULE Spec2Model ----
(***************************************************************************)
(* Model of pycovenantsql.connections: the Connection lifecycle, command   *)
(* dispatch, ok-packet validation and result materialisation.              *)
(*                                                                         *)
(* Python values are modelled as records tagged with a "kind" field, so    *)
(* that None, ints, lists, tuples and dicts stay distinct: a list is       *)
(* [kind |-> "list", items |-> <<...>>], a tuple [kind |-> "tuple", ...].  *)
(* Strings are records [type |-> "str" | "bytes", chars |-> <<...>>] whose *)
(* chars are one-character strings.  The SQL texts used are ASCII, on      *)
(* which the utf8 encoding is one byte per character.                      *)
(***************************************************************************)
EXTENDS Integers, Sequences, FiniteSets, TLC

\* Bound: the longest "rows" array a response carries.
MaxRows == 2

\* The largest connect_timeout __init__ accepts.
MaxConnectTimeout == 31536000

-----------------------------------------------------------------------------
(* Python values *)

None == [kind |-> "None"]

PyInt(n) == [kind |-> "int", v |-> n]

PyBool(b) == [kind |-> "bool", v |-> b]

List(items) == [kind |-> "list", items |-> items]

Tuple(items) == [kind |-> "tuple", items |-> items]

\* A key a dict does not have.
Absent == [kind |-> "absent"]

\* An attribute that was never assigned (_resp_json, server_status).
Unset == [kind |-> "unset"]

Str(chars) == [type |-> "str", chars |-> chars]

Bytes(chars) == [type |-> "bytes", chars |-> chars]

NoError == [type |-> "none", args |-> <<>>]

Raise(type, args) == [type |-> type, args |-> args]

-----------------------------------------------------------------------------
(* bytes methods used by the dispatch *)

UpperCase == <<"A", "B", "C", "D", "E", "F", "G", "H", "I", "J", "K", "L", "M",
               "N", "O", "P", "Q", "R", "S", "T", "U", "V", "W", "X", "Y", "Z">>

LowerCase == <<"a", "b", "c", "d", "e", "f", "g", "h", "i", "j", "k", "l", "m",
               "n", "o", "p", "q", "r", "s", "t", "u", "v", "w", "x", "y", "z">>

\* bytes.lstrip() with no argument strips ASCII whitespace.
Whitespace == {" ", "\t", "\n", "\r", "\f"}

\* bytes.lower() maps the ASCII upper-case letters and nothing else.
LowerOf ==
    [ch \in {UpperCase[i] : i \in 1..26} |->
        LowerCase[CHOOSE i \in 1..26 : UpperCase[i] = ch]]

lower_char(ch) == IF ch \in DOMAIN LowerOf THEN LowerOf[ch] ELSE ch

lower(chars) == [i \in 1..Len(chars) |-> lower_char(chars[i])]

RECURSIVE lstrip(_)
lstrip(chars) ==
    IF chars # <<>> /\ Head(chars) \in Whitespace
    THEN lstrip(Tail(chars))
    ELSE chars

startswith(chars, prefix) ==
    /\ Len(chars) >= Len(prefix)
    /\ SubSeq(chars, 1, Len(prefix)) = prefix

\* str.encode(self.encoding): one byte per character on ASCII text.
encode(sql) == Bytes(sql.chars)

-----------------------------------------------------------------------------
(* configuration set by __init__ *)

database == "db0"

query_uri == "https://localhost:11108/v1/query"

exec_uri == "https://localhost:11108/v1/exec"

-----------------------------------------------------------------------------
(* the transport and the bodies it returns *)

\* The i-th row of a table, a JSON array of column values as json() decodes
\* it: [1, "a"], [2, "b"], ...
ColumnNames == <<"a", "b", "c", "d">>

Row(i) == List(<<PyInt(i), ColumnNames[((i - 1) % 4) + 1]>>)

\* The "rows" arrays: the first n rows in ascending and in descending order.
RowArrays ==
    {[i \in 1..n |-> Row(i)] : n \in 0..MaxRows}
        \cup {[i \in 1..n |-> Row(n + 1 - i)] : n \in 2..MaxRows}

\* The "data" member: missing, null, an object with a rows array, an object
\* without one, or a value that is no object.
DataValues ==
    {Absent, None, [kind |-> "dict", rows |-> Absent], List(<<>>)}
        \cup {[kind |-> "dict", rows |-> List(r)] : r \in RowArrays}

\* The decoded envelope {success, status?, data?}: status is present when
\* success is false.
Envelopes ==
    {[kind |-> "dict", success |-> TRUE, status |-> Absent, data |-> d] :
        d \in DataValues}
        \cup {[kind |-> "dict", success |-> FALSE, status |-> "syntax error",
               data |-> Absent]}

\* A response body: text json() cannot decode, or the text of an envelope.
Bodies == {[kind |-> "invalid"]} \cup {[kind |-> "json", value |-> e] : e \in Envelopes}

\* requests.Response: ok is status_code < 400, reason the reason phrase.  An
\* error status comes with an undecodable body, a failure envelope or an
\* envelope without rows.
ErrorBodies ==
    {b \in Bodies : b.kind = "json" => b.value.data \in {Absent, None}}

Responses ==
    {[kind |-> "Response", ok |-> TRUE, reason |-> "OK", body |-> b] : b \in Bodies}
        \cup {[kind |-> "Response", ok |-> FALSE, reason |-> "Bad Gateway", body |-> b] :
                b \in ErrorBodies}

\* What one session.post() call does: raise, or return a response.
TransportOutcomes ==
    {[kind |-> "raise", cause |-> "timed out"]}
        \cup {[kind |-> "return", resp |-> r] : r \in Responses}

\* The SQL texts callers pass to query().
SqlInputs ==
    { Str(<<"s", "e", "l", "e", "c", "t", " ", "1", ";">>),
      Str(<<" ", " ", "S", "E", "L", "E", "C", "T", " ", "1">>),
      Bytes(<<"\t", "S", "e", "L", "e", "C", "t", " ", "*">>),
      Str(<<"i", "n", "s", "e", "r", "t", " ", "i", "n", "t", "o", " ", "t", " ",
            "v", "a", "l", "u", "e", "s", " ", "(", "1", ")">>),
      Bytes(<<"s", "e", "l", "e", "c">>),
      Str(<<"x", "s", "e", "l", "e", "c", "t">>) }

-----------------------------------------------------------------------------
(* the Connection object *)

VARIABLES
    closed,         \* Connection._closed
    sock,           \* Connection._sock: True while held, None when released
    resp,           \* Connection._resp
    resp_json,      \* Connection._resp_json
    server_status,  \* Connection.server_status
    result,         \* Connection._result
    affected_rows,  \* Connection._affected_rows
    hist,           \* history: whether connect() was ever called, and which
                    \* command produced the held _resp_json and _result
    lastop,         \* the last public call: its name, argument and outcome
    callers,        \* concurrent use: each caller's position in its call, its
                    \* locals and how its last call ended
    conc            \* concurrent use: whose command produced _resp and
                    \* _resp_json, and which races have happened

vars ==
    <<closed, sock, resp, resp_json, server_status, result, affected_rows, hist, lastop,
      callers, conc>>

\* The object's fields as one record, for the methods below.
Conn ==
    [closed |-> closed, sock |-> sock, resp |-> resp, resp_json |-> resp_json,
     server_status |-> server_status, result |-> result,
     affected_rows |-> affected_rows, hist |-> hist]

\* The history of a new object: connect() not called, no envelope and no
\* result produced.  An envelope or result is "last" when the command
\* dispatched last produced it and "earlier" when an earlier one did.
NoHistory == [opened |-> FALSE, resp_json |-> "none", result |-> "none"]

\* A new command is dispatched: what is held now comes from an earlier one.
Older(h) ==
    [h EXCEPT !.resp_json = IF @ = "none" THEN "none" ELSE "earlier",
              !.result = IF @ = "none" THEN "none" ELSE "earlier"]

\* The outcome of a method: the object afterwards, the exception raised (or
\* NoError), the value returned, the POSTs attempted and the steps run.
Out(c, err, ret, posts, steps) ==
    [c |-> c, err |-> err, ret |-> ret, posts |-> posts, steps |-> steps]

\* Statement sequencing: after a statement that ended as o, the next one,
\* which runs on o.c and ends as n, is run unless o raised.
Then(o, n) ==
    IF o.err # NoError THEN o
    ELSE Out(n.c, n.err, n.ret, o.posts \o n.posts, o.steps \o n.steps)

-----------------------------------------------------------------------------
(* Connection._execute_command, _read_ok_packet, _read_query_result *)

\* A variant that compares without stripping the leading whitespace.
is_select_unstripped(sql) ==
    startswith(lower(sql.chars), <<"s", "e", "l", "e", "c", "t">>)

\* The test that picks the endpoint: sql.lower().lstrip().startswith(b'select').
is_select(sql) ==
    startswith(lstrip(lower(sql.chars)), <<"s", "e", "l", "e", "c", "t">>)

\* One session.post(uri, data=data) call and how it ended: "raise" or "return".
Post(uri, sql, t) ==
    [uri |-> uri, data |-> [database |-> database, query |-> sql], outcome |-> t.kind]

\* A variant that lets the transport's exception through unwrapped.
post_request_unwrapped(c, sql, t) ==
    LET post == Post(IF is_select(sql) THEN query_uri ELSE exec_uri, sql, t) IN
    IF t.kind = "raise"
    THEN Out(c, Raise("ConnectionError", <<t.cause>>), None, <<post>>, <<"post">>)
    ELSE Out([c EXCEPT !.resp = t.resp], NoError, None, <<post>>, <<"post">>)

\* The try block around session.post: the transport's answer t is stored in
\* _resp, or its exception is wrapped in InterfaceError.
post_request(c, sql, t) ==
    LET post == Post(IF is_select(sql) THEN query_uri ELSE exec_uri, sql, t) IN
    IF t.kind = "raise"
    THEN Out(c, Raise("InterfaceError", <<"Request proxy err", t.cause>>), None,
             <<post>>, <<"post">>)
    ELSE Out([c EXCEPT !.resp = t.resp], NoError, None, <<post>>, <<"post">>)

\* A variant that rejects an error status before decoding the body.
decode_response_status_first(c) ==
    IF ~c.resp.ok
    THEN Out(c, Raise("OperationalError", <<"Proxy return false", c.resp.reason>>), None,
             <<>>, <<"json">>)
    ELSE IF c.resp.body.kind = "invalid"
    THEN Out(c, Raise("InterfaceError", <<"Proxy return invalid data", c.resp.reason>>),
             None, <<>>, <<"json">>)
    ELSE Out([c EXCEPT !.resp_json = c.resp.body.value, !.hist.resp_json = "last"],
             NoError, None, <<>>, <<"json">>)

\* A variant that swallows the decoding error once an envelope is held.
decode_response_keeps_stale(c) ==
    IF c.resp.body.kind = "invalid"
    THEN IF c.resp_json # Unset
         THEN Out(c, NoError, None, <<>>, <<"json">>)
         ELSE Out(c, Raise("InterfaceError", <<"Proxy return invalid data", c.resp.reason>>),
                  None, <<>>, <<"json">>)
    ELSE Out([c EXCEPT !.resp_json = c.resp.body.value, !.hist.resp_json = "last"],
             NoError, None, <<>>, <<"json">>)

\* The try block around self._resp.json().
decode_response(c) ==
    IF c.resp.body.kind = "invalid"
    THEN Out(c, Raise("InterfaceError", <<"Proxy return invalid data", c.resp.reason>>),
             None, <<>>, <<"json">>)
    ELSE Out([c EXCEPT !.resp_json = c.resp.body.value, !.hist.resp_json = "last"],
             NoError, None, <<>>, <<"json">>)

\* The part of _execute_command after the closed check.
dispatch(c, sql, t) ==
    LET bsql == IF sql.type = "str" THEN encode(sql) ELSE sql
        \* drop last command return
        c1   == [c EXCEPT !.resp = None, !.hist = Older(c.hist)]
        o    == post_request(c1, bsql, t)
    IN  Then(o, decode_response(o.c))

\* A variant that reconnects a closed connection instead of refusing.
execute_command_reconnects(c, sql, t) ==
    dispatch([c EXCEPT !.closed = FALSE, !.sock = PyBool(TRUE)], sql, t)

\* A variant that drops the last response before the closed check.
execute_command_drops_first(c, sql, t) ==
    IF c.closed
    THEN Out([c EXCEPT !.resp = None], Raise("InterfaceError", <<"Connection closed">>),
             None, <<>>, <<>>)
    ELSE dispatch(c, sql, t)

execute_command(c, sql, t) ==
    IF c.closed
    THEN Out(c, Raise("InterfaceError", <<"Connection closed">>), None, <<>>, <<>>)
    ELSE dispatch(c, sql, t)

\* A variant that checks the transport status before the success flag.
read_ok_packet_status_first(c) ==
    LET c1 == [c EXCEPT !.server_status = PyBool(c.resp_json.success)] IN
    IF ~c1.resp.ok
    THEN Out(c1, Raise("OperationalError", <<"Proxy return false", c1.resp.reason>>), None,
             <<>>, <<"read_ok_packet">>)
    ELSE IF ~c1.server_status.v
    THEN Out(c1, Raise("OperationalError", <<"Syntax error", c1.resp_json.status>>), None,
             <<>>, <<"read_ok_packet">>)
    ELSE Out(c1, NoError, c1.server_status, <<>>, <<"read_ok_packet">>)

read_ok_packet(c) ==
    LET c1 == [c EXCEPT !.server_status = PyBool(c.resp_json.success)] IN
    IF ~c1.server_status.v
    THEN Out(c1, Raise("OperationalError", <<"Syntax error", c1.resp_json.status>>), None,
             <<>>, <<"read_ok_packet">>)
    ELSE IF ~c1.resp.ok
    THEN Out(c1, Raise("OperationalError", <<"Proxy return false", c1.resp.reason>>), None,
             <<>>, <<"read_ok_packet">>)
    ELSE Out(c1, NoError, c1.server_status, <<>>, <<"read_ok_packet">>)

-----------------------------------------------------------------------------
(* CovenantSQLResult *)

\* CovenantSQLResult.__init__: the fields read() and its callers use.
CovenantSQLResult ==
    [kind |-> "CovenantSQLResult", affected_rows |-> None, rows |-> None]

\* for column in line: row.append(column)
RECURSIVE copy_row(_, _)
copy_row(line, row) ==
    IF line = <<>> THEN row
    ELSE copy_row(Tail(line), Append(row, Head(line)))

\* A variant that inserts each row at the front.
RECURSIVE copy_rows_reversed(_, _)
copy_rows_reversed(lines, rows) ==
    IF lines = <<>> THEN rows
    ELSE copy_rows_reversed(Tail(lines),
                            <<Tuple(copy_row(Head(lines).items, <<>>))>> \o rows)

\* for line in data['rows']: ...; rows.append(tuple(row))
RECURSIVE copy_rows(_, _)
copy_rows(lines, rows) ==
    IF lines = <<>> THEN rows
    ELSE copy_rows(Tail(lines), Append(rows, Tuple(copy_row(Head(lines).items, <<>>))))

\* CovenantSQLResult.read on the object self, bound to the connection c;
\* ret is self afterwards.
read(self, c) ==
    LET data == c.resp_json.data IN
    IF data = Absent
    THEN Out(c, Raise("InterfaceError", <<"Unsupported response format">>), self,
             <<>>, <<"read">>)
    ELSE IF data = None
    THEN Out(c, NoError, self, <<>>, <<"read">>)
    ELSE IF data.kind # "dict"
    THEN Out(c, Raise("TypeError", <<"list indices must be integers or slices, not str">>),
             self, <<>>, <<"read">>)
    ELSE IF data.rows = Absent
    THEN Out(c, Raise("KeyError", <<"rows">>), self, <<>>, <<"read">>)
    ELSE Out(c, NoError,
             [self EXCEPT !.affected_rows = PyInt(Len(data.rows.items)),
                          !.rows = Tuple(copy_rows(data.rows.items, <<>>))],
             <<>>, <<"read">>)

\* A variant that reads into the result the connection already holds.
read_query_result_reuses(c) ==
    LET o1 == read_ok_packet(c) IN
    IF o1.err # NoError THEN o1
    ELSE
      LET r == read(IF c.result # None THEN c.result ELSE CovenantSQLResult, o1.c) IN
      IF r.err # NoError
      THEN Out(r.c, r.err, None, <<>>, o1.steps \o r.steps)
      ELSE Out([r.c EXCEPT !.result = r.ret,
                           !.hist.result = IF c.result # None THEN @ ELSE "last"],
               NoError, r.ret.affected_rows, <<>>, o1.steps \o r.steps)

\* A variant that stores the new result before reading into it.
read_query_result_stores_early(c) ==
    LET c1 == [c EXCEPT !.result = None, !.hist.result = "none"]
        o1 == read_ok_packet(c1)
    IN
    IF o1.err # NoError THEN o1
    ELSE
      LET r == read(CovenantSQLResult, o1.c) IN
      Out([r.c EXCEPT !.result = r.ret, !.hist.result = "last"],
          r.err, IF r.err # NoError THEN None ELSE r.ret.affected_rows,
          <<>>, o1.steps \o r.steps)

read_query_result(c) ==
    LET c1 == [c EXCEPT !.result = None, !.hist.result = "none"]
        o1 == read_ok_packet(c1)
    IN
    IF o1.err # NoError THEN o1
    ELSE
      LET r == read(CovenantSQLResult, o1.c) IN
      IF r.err # NoError
      THEN Out(r.c, r.err, None, <<>>, o1.steps \o r.steps)
      ELSE Out([r.c EXCEPT !.result = r.ret, !.hist.result = "last"], NoError,
               r.ret.affected_rows, <<>>, o1.steps \o r.steps)

-----------------------------------------------------------------------------
(* the public methods of Connection *)

\* A variant that does not store the row count.
query_forgets_count(c, sql, t) ==
    LET bsql == IF sql.type = "str" THEN encode(sql) ELSE sql
        e    == execute_command(c, bsql, t)
    IN  Then(e, read_query_result(e.c))

query(c, sql, t) ==
    LET bsql == IF sql.type = "str" THEN encode(sql) ELSE sql
        e    == execute_command(c, bsql, t)
        o    == Then(e, read_query_result(e.c))
    IN
    IF o.err # NoError THEN o
    ELSE Out([o.c EXCEPT !.affected_rows = o.ret], NoError, o.ret, o.posts, o.steps)

\* A variant that marks the connection closed again when the probe fails.
connect_rolls_back(c, t) ==
    LET c1 == [c EXCEPT !.closed = FALSE, !.sock = PyBool(TRUE), !.hist.opened = TRUE]
        e  == execute_command(c1, Str(<<"s", "e", "l", "e", "c", "t", " ", "1", ";">>), t)
        o  == Then(e, read_ok_packet(e.c))
    IN  IF o.err # NoError
        THEN Out([o.c EXCEPT !.closed = TRUE, !.sock = None], o.err, None, o.posts, o.steps)
        ELSE Out(o.c, o.err, None, o.posts, o.steps)

connect(c, t) ==
    LET c1 == [c EXCEPT !.closed = FALSE, !.sock = PyBool(TRUE), !.hist.opened = TRUE]
        e  == execute_command(c1, Str(<<"s", "e", "l", "e", "c", "t", " ", "1", ";">>), t)
        o  == Then(e, read_ok_packet(e.c))
    IN  Out(o.c, o.err, None, o.posts, o.steps)

\* A variant that accepts a second close.
close_idempotent(c) ==
    Out([c EXCEPT !.sock = None, !.closed = TRUE], NoError, None, <<>>, <<>>)

close(c) ==
    IF c.closed
    THEN Out(c, Raise("Error", <<"Already closed">>), None, <<>>, <<>>)
    ELSE Out([c EXCEPT !.sock = None, !.closed = TRUE], NoError, None, <<>>, <<>>)

commit(c, t) ==
    LET e == execute_command(c, Str(<<"C", "O", "M", "M", "I", "T">>), t)
        o == Then(e, read_ok_packet(e.c))
    IN  Out(o.c, o.err, None, o.posts, o.steps)

rollback(c, t) ==
    LET e == execute_command(c, Str(<<"R", "O", "L", "L", "B", "A", "C", "K">>), t)
        o == Then(e, read_ok_packet(e.c))
    IN  Out(o.c, o.err, None, o.posts, o.steps)

\* cursor(): a new cursor bound to the connection; the connection is not changed.
cursor(c) == Out(c, NoError, [kind |-> "Cursor"], <<>>, <<>>)

\* The timeouts and the defer_connect flag __init__ is called with; a timeout
\* that is not given is None.
InitArgs ==
    [connect_timeout : {0, 1, 10, MaxConnectTimeout, MaxConnectTimeout + 1},
     read_timeout    : {None, PyInt(0), PyInt(5)},
     write_timeout   : {None, PyInt(0), PyInt(5)},
     defer_connect   : BOOLEAN]

\* The object when __init__ reaches the timeout checks: _resp is set, _closed
\* is the class attribute, the other fields are not assigned yet.
NewConnection ==
    [closed |-> FALSE, sock |-> Unset, resp |-> None, resp_json |-> Unset,
     server_status |-> Unset, result |-> Unset, affected_rows |-> Unset,
     hist |-> NoHistory]

\* A variant that connects before it checks the timeouts.
init_connects_first(args, t) ==
    LET c1 == [NewConnection EXCEPT !.result = None, !.affected_rows = PyInt(0)]
        o  == IF args.defer_connect
              THEN Out([c1 EXCEPT !.sock = None], NoError, None, <<>>, <<>>)
              ELSE connect(c1, t)
    IN
    IF o.err # NoError THEN o
    ELSE IF ~(0 < args.connect_timeout /\ args.connect_timeout <= MaxConnectTimeout)
    THEN Out(o.c, Raise("ValueError", <<"connect_timeout should be >0 and <=31536000">>),
             None, o.posts, o.steps)
    ELSE IF args.read_timeout # None /\ args.read_timeout.v <= 0
    THEN Out(o.c, Raise("ValueError", <<"read_timeout should be >= 0">>), None,
             o.posts, o.steps)
    ELSE IF args.write_timeout # None /\ args.write_timeout.v <= 0
    THEN Out(o.c, Raise("ValueError", <<"write_timeout should be >= 0">>), None,
             o.posts, o.steps)
    ELSE o

\* Connection.__init__, from the timeout checks on.
init(args, t) ==
    IF ~(0 < args.connect_timeout /\ args.connect_timeout <= MaxConnectTimeout)
    THEN Out(NewConnection,
             Raise("ValueError", <<"connect_timeout should be >0 and <=31536000">>),
             None, <<>>, <<>>)
    ELSE IF args.read_timeout # None /\ args.read_timeout.v <= 0
    THEN Out(NewConnection, Raise("ValueError", <<"read_timeout should be >= 0">>), None,
             <<>>, <<>>)
    ELSE IF args.write_timeout # None /\ args.write_timeout.v <= 0
    THEN Out(NewConnection, Raise("ValueError", <<"write_timeout should be >= 0">>), None,
             <<>>, <<>>)
    ELSE
      LET c1 == [NewConnection EXCEPT !.result = None, !.affected_rows = PyInt(0)] IN
      IF args.defer_connect
      THEN Out([c1 EXCEPT !.sock = None], NoError, None, <<>>, <<>>)
      ELSE connect(c1, t)

-----------------------------------------------------------------------------
(* the state machine: one action per public call *)

\* The caller holds the object: __init__ did not raise.
Alive == ~(lastop.op = "__init__" /\ lastop.err # NoError)

\* The call op(sql) ended as out: the object takes out.c, lastop records the
\* call.
Call(op, sql, out) ==
    /\ Alive
    /\ \E o \in {out} :
        /\ closed' = o.c.closed
        /\ sock' = o.c.sock
        /\ resp' = o.c.resp
        /\ resp_json' = o.c.resp_json
        /\ server_status' = o.c.server_status
        /\ result' = o.c.result
        /\ affected_rows' = o.c.affected_rows
        /\ hist' = o.c.hist
        /\ lastop' = [op |-> op, sql |-> sql, args |-> None, err |-> o.err,
                      ret |-> o.ret, posts |-> o.posts, steps |-> o.steps]
        /\ UNCHANGED <<callers, conc>>

\* The callers that share one Connection in concurrent use, and the one that
\* made it (the probe's sender).
Callers == {1, 2}

Maker == 0

\* A caller that is in no call: pc is "idle".  During a call, res is the
\* local result object, seen the caller whose command produced the envelope
\* this call inspected last, alone whether no other caller took a step since
\* the call began, late whether the call's POST was made with _closed true.
NotSeen == 3

IdleCaller ==
    [pc |-> "idle", op |-> "none", res |-> None, err |-> NoError, ret |-> None,
     seen |-> NotSeen, alone |-> TRUE, late |-> FALSE]

\* Nothing raced yet; the held response and envelope are the probe's.
NoRace == [resp_owner |-> Maker, json_owner |-> Maker, stolen |-> FALSE, late_post |-> FALSE]

\* Connection(connect_timeout=..., read_timeout=..., write_timeout=...,
\* defer_connect=...): the object as __init__ leaves it.
Init ==
    \E args \in InitArgs, t \in TransportOutcomes :
        \E o \in {init(args, t)} :
            /\ closed = o.c.closed
            /\ sock = o.c.sock
            /\ resp = o.c.resp
            /\ resp_json = o.c.resp_json
            /\ server_status = o.c.server_status
            /\ result = o.c.result
            /\ affected_rows = o.c.affected_rows
            /\ hist = o.c.hist
            /\ lastop = [op |-> "__init__", sql |-> None, args |-> args, err |-> o.err,
                         ret |-> None, posts |-> o.posts, steps |-> o.steps]
            /\ callers = [k \in Callers |-> IdleCaller]
            /\ conc = NoRace

Connect == \E t \in TransportOutcomes : Call("connect", None, connect(Conn, t))

Close == Call("close", None, close(Conn))

Commit == \E t \in TransportOutcomes : Call("commit", None, commit(Conn, t))

Rollback == \E t \in TransportOutcomes : Call("rollback", None, rollback(Conn, t))

Cursor == Call("cursor", None, cursor(Conn))

Query ==
    \E sql \in SqlInputs, t \in TransportOutcomes : Call("query", sql, query(Conn, sql, t))

Next == Connect \/ Close \/ Commit \/ Rollback \/ Cursor \/ Query

Spec == Init /\ [][Next]_vars

-----------------------------------------------------------------------------
(* concurrent use: two callers run query() and close() on one Connection,
   interleaved statement by statement, with no lock *)

\* The statement every concurrent query() sends.
ConcSql == Bytes(<<"s", "e", "l", "e", "c", "t", " ", "1", ";">>)

\* The envelope the server answers caller k's command with: k rows.
OwnEnvelope(k) ==
    [kind |-> "dict", success |-> TRUE, status |-> Absent,
     data |-> [kind |-> "dict", rows |-> List([i \in 1..k |-> Row(i)])]]

\* What the POST of caller k's command does: raise, return text that is no
\* JSON, or return the command's envelope.
ConcOutcomes(k) ==
    {t \in TransportOutcomes :
        t.kind = "return" =>
            /\ t.resp.ok
            /\ t.resp.body.kind = "json" => t.resp.body.value = OwnEnvelope(k)}

\* The constructor's arguments in concurrent use: the defaults.
ConcArgs ==
    [connect_timeout |-> 10, read_timeout |-> None, write_timeout |-> None,
     defer_connect |-> FALSE]

\* The object's fields become those of c.
Store(c) ==
    /\ closed' = c.closed
    /\ sock' = c.sock
    /\ resp' = c.resp
    /\ resp_json' = c.resp_json
    /\ server_status' = c.server_status
    /\ result' = c.result
    /\ affected_rows' = c.affected_rows
    /\ hist' = c.hist

\* Caller k takes one step and is then as me; a caller that is inside a
\* call while k steps is no longer alone.
Step(k, me) ==
    callers' = [j \in Callers |->
                    IF j = k THEN me
                    ELSE IF callers[j].pc # "idle" THEN [callers[j] EXCEPT !.alone = FALSE]
                    ELSE callers[j]]

\* Caller k's call ends: it raised e or returned ret.
Finished(k, e, ret) ==
    [callers[k] EXCEPT !.pc = "idle", !.err = e, !.ret = ret, !.res = None]

\* Caller k goes on to the statement at pc.
Goto(k, pc) == [callers[k] EXCEPT !.pc = pc]

\* self._resp is None where the code takes an attribute of it.
NoneHasNo(attr) == Raise("AttributeError", <<"'NoneType' object has no attribute", attr>>)

\* Caller k calls query(sql).
BeginQuery(k) ==
    /\ callers[k].pc = "idle"
    /\ Step(k, [IdleCaller EXCEPT !.pc = "check", !.op = "query"])
    /\ UNCHANGED <<closed, sock, resp, resp_json, server_status, result, affected_rows,
                   hist, lastop, conc>>

\* if self._closed: raise err.InterfaceError("Connection closed")
CheckClosed(k) ==
    /\ callers[k].pc = "check"
    /\ Step(k, IF closed
               THEN Finished(k, Raise("InterfaceError", <<"Connection closed">>), None)
               ELSE Goto(k, "drop"))
    /\ UNCHANGED <<closed, sock, resp, resp_json, server_status, result, affected_rows,
                   hist, lastop, conc>>

\* drop last command return: self._resp = None
DropResponse(k) ==
    /\ callers[k].pc = "drop"
    /\ Store([Conn EXCEPT !.resp = None, !.hist = Older(hist)])
    /\ Step(k, Goto(k, "post"))
    /\ UNCHANGED <<lastop, conc>>

\* self._resp = self._session.post(...), or the exception wrapped.
PostRequest(k) ==
    /\ callers[k].pc = "post"
    /\ \E t \in ConcOutcomes(k) :
        \E o \in {post_request(Conn, ConcSql, t)} :
            /\ Store(o.c)
            /\ Step(k, IF o.err # NoError
                       THEN [Finished(k, o.err, None) EXCEPT !.late = closed]
                       ELSE [Goto(k, "decode") EXCEPT !.late = closed])
            /\ conc' = [conc EXCEPT
                            !.resp_owner = IF o.err # NoError THEN @ ELSE k,
                            !.late_post = @ \/ closed]
    /\ UNCHANGED lastop

\* self._resp_json = self._resp.json(), or the exception wrapped; when
\* another caller has dropped _resp, the except clause's self._resp.reason
\* raises AttributeError.
DecodeResponse(k) ==
    /\ callers[k].pc = "decode"
    /\ IF resp = None
       THEN /\ Step(k, Finished(k, NoneHasNo("reason"), None))
            /\ UNCHANGED <<closed, sock, resp, resp_json, server_status, result,
                           affected_rows, hist, conc>>
       ELSE \E o \in {decode_response(Conn)} :
            /\ Store(o.c)
            /\ Step(k, IF o.err # NoError THEN Finished(k, o.err, None)
                       ELSE Goto(k, "clear"))
            /\ conc' = [conc EXCEPT
                            !.json_owner = IF o.err # NoError THEN @ ELSE conc.resp_owner]
    /\ UNCHANGED lastop

\* _read_query_result: self._result = None
ClearResult(k) ==
    /\ callers[k].pc = "clear"
    /\ Store([Conn EXCEPT !.result = None, !.hist.result = "none"])
    /\ Step(k, Goto(k, "validate"))
    /\ UNCHANGED <<lastop, conc>>

\* self._read_ok_packet(); when another caller has dropped _resp,
\* self._resp.ok raises AttributeError.
Validate(k) ==
    /\ callers[k].pc = "validate"
    /\ IF resp_json.success /\ resp = None
       THEN /\ Store([Conn EXCEPT !.server_status = PyBool(resp_json.success)])
            /\ Step(k, [Finished(k, NoneHasNo("ok"), None) EXCEPT !.seen = conc.json_owner])
       ELSE \E o \in {read_ok_packet(Conn)} :
            /\ Store(o.c)
            /\ Step(k, IF o.err # NoError
                       THEN [Finished(k, o.err, None) EXCEPT !.seen = conc.json_owner]
                       ELSE [Goto(k, "read") EXCEPT !.seen = conc.json_owner])
    /\ UNCHANGED <<lastop, conc>>

\* result = CovenantSQLResult(self); result.read()
ReadResult(k) ==
    /\ callers[k].pc = "read"
    /\ \E o \in {read(CovenantSQLResult, Conn)} :
        /\ Store(o.c)
        /\ Step(k, IF o.err # NoError
                   THEN [Finished(k, o.err, None) EXCEPT !.seen = conc.json_owner]
                   ELSE [Goto(k, "store_result") EXCEPT !.seen = conc.json_owner,
                                                        !.res = o.ret])
    /\ UNCHANGED <<lastop, conc>>

\* self._result = result
StoreResult(k) ==
    /\ callers[k].pc = "store_result"
    /\ Store([Conn EXCEPT !.result = callers[k].res, !.hist.result = "last"])
    /\ Step(k, Goto(k, "store_count"))
    /\ UNCHANGED <<lastop, conc>>

\* self._affected_rows = <result.affected_rows, as _read_query_result returned it>
StoreCount(k) ==
    /\ callers[k].pc = "store_count"
    /\ Store([Conn EXCEPT !.affected_rows = callers[k].res.affected_rows])
    /\ Step(k, Goto(k, "return"))
    /\ UNCHANGED <<lastop, conc>>

\* return self._affected_rows
ReturnCount(k) ==
    /\ callers[k].pc = "return"
    /\ Step(k, Finished(k, NoError, affected_rows))
    /\ conc' = [conc EXCEPT
                    !.stolen = @ \/ (/\ callers[k].seen # k
                                     /\ affected_rows = PyInt(callers[k].seen))]
    /\ UNCHANGED <<closed, sock, resp, resp_json, server_status, result, affected_rows,
                   hist, lastop>>

\* Caller k calls close().
BeginClose(k) ==
    /\ callers[k].pc = "idle"
    /\ Step(k, [IdleCaller EXCEPT !.pc = "close_check", !.op = "close"])
    /\ UNCHANGED <<closed, sock, resp, resp_json, server_status, result, affected_rows,
                   hist, lastop, conc>>

\* if self._closed: raise err.Error("Already closed")
CloseCheck(k) ==
    /\ callers[k].pc = "close_check"
    /\ Step(k, IF close(Conn).err # NoError THEN Finished(k, close(Conn).err, None)
               ELSE Goto(k, "close_sock"))
    /\ UNCHANGED <<closed, sock, resp, resp_json, server_status, result, affected_rows,
                   hist, lastop, conc>>

\* self._sock = None
CloseSock(k) ==
    /\ callers[k].pc = "close_sock"
    /\ Store([Conn EXCEPT !.sock = None])
    /\ Step(k, Goto(k, "close_flag"))
    /\ UNCHANGED <<lastop, conc>>

\* self._closed = True
CloseFlag(k) ==
    /\ callers[k].pc = "close_flag"
    /\ Store([Conn EXCEPT !.closed = TRUE])
    /\ Step(k, Finished(k, NoError, None))
    /\ UNCHANGED <<lastop, conc>>

\* A connection made with the defaults, its probe answered well.
InitConc ==
    /\ Init
    /\ lastop.args = ConcArgs
    /\ lastop.err = NoError

NextConc ==
    \E k \in Callers :
        \/ BeginQuery(k)
        \/ CheckClosed(k)
        \/ DropResponse(k)
        \/ PostRequest(k)
        \/ DecodeResponse(k)
        \/ ClearResult(k)
        \/ Validate(k)
        \/ ReadResult(k)
        \/ StoreResult(k)
        \/ StoreCount(k)
        \/ ReturnCount(k)
        \/ BeginClose(k)
        \/ CloseCheck(k)
        \/ CloseSock(k)
        \/ CloseFlag(k)

SpecConc == InitConc /\ [][NextConc]_vars

-----------------------------------------------------------------------------
(* properties *)

\* The calls that dispatch a command when the connection is not closed.
Commands == {"query", "commit", "rollback"}

\* The last call ran the step s.
Ran(s) == \E i \in 1..Len(lastop.steps) : lastop.steps[i] = s

ClosedError == Raise("InterfaceError", <<"Connection closed">>)

\* C1 as stated: CLOSED is terminal, no call ever makes closed false again.
C1_ClosedIsTerminal == [][closed => closed']_vars

\* C1 amended: a closed connection stays closed under query, commit, rollback,
\* close and cursor, which fail with InterfaceError (the commands) and Error
\* (close); only connect() leaves CLOSED.
C1_ClosedLeftOnlyByConnect ==
    [][closed =>
         /\ (lastop'.op # "connect" => closed')
         /\ (lastop'.op \in Commands => lastop'.err = ClosedError)
         /\ (lastop'.op = "close" => lastop'.err.type = "Error")
         /\ (lastop'.op = "connect" => ~closed')]_vars

C1_Witness ==
    /\ closed
    /\ lastop.op = "query"
    /\ lastop.err = ClosedError
    /\ affected_rows = PyInt(2)

\* C2: on a closed connection query, commit and rollback fail with
\* InterfaceError, make no POST and leave the held response, the decoded
\* envelope, the current result and the stored row count unchanged.
C2_ClosedCommandsFailUntouched ==
    [][(closed /\ lastop'.op \in Commands) =>
         /\ lastop'.err.type = "InterfaceError"
         /\ lastop'.posts = <<>>
         /\ UNCHANGED <<resp, resp_json, result, affected_rows>>]_vars

C2_Witness ==
    /\ closed
    /\ lastop.op = "commit"
    /\ lastop.err.type = "InterfaceError"
    /\ lastop.posts = <<>>
    /\ resp # None
    /\ result # None

C4_TrimmedLowered(chars) == lower(lstrip(chars))

C4_SelectPrefix(chars) ==
    /\ Len(chars) >= 6
    /\ <<chars[1], chars[2], chars[3], chars[4], chars[5], chars[6]>>
         = <<"s", "e", "l", "e", "c", "t">>

C4_CommandRouting ==
    [][((~closed /\ lastop'.op \in Commands) \/ lastop'.op = "connect") =>
         /\ Len(lastop'.posts) = 1
         /\ lastop'.op = "query" =>
              lastop'.posts[1].data.query.chars = lastop'.sql.chars
         /\ IF C4_SelectPrefix(C4_TrimmedLowered(lastop'.posts[1].data.query.chars))
            THEN lastop'.posts[1].uri = query_uri
            ELSE lastop'.posts[1].uri = exec_uri]_vars

C4_Witness ==
    /\ lastop.op = "query"
    /\ lastop.sql.chars[1] = " "
    /\ lastop.sql.chars[3] = "S"
    /\ Len(lastop.posts) = 1
    /\ lastop.posts[1].uri = query_uri

\* C5: whenever validation runs, it fails with OperationalError carrying the
\* envelope's status if success is false, whatever the transport status;
\* else with OperationalError carrying the transport reason if the response
\* is not ok; and it raises no OperationalError when both hold.
C5_OkPacketOrder ==
    Ran("read_ok_packet") =>
        /\ server_status = PyBool(resp_json.success)
        /\ IF ~resp_json.success
           THEN lastop.err = Raise("OperationalError", <<"Syntax error", resp_json.status>>)
           ELSE IF ~resp.ok
           THEN lastop.err = Raise("OperationalError", <<"Proxy return false", resp.reason>>)
           ELSE /\ lastop.err.type # "OperationalError"
                /\ lastop.op # "query" => lastop.err = NoError

C5_Witness ==
    /\ Ran("read_ok_packet")
    /\ ~resp_json.success
    /\ ~resp.ok
    /\ lastop.err = Raise("OperationalError", <<"Syntax error", "syntax error">>)

\* C6: when query() materialises a validated envelope whose data has a rows
\* array, it succeeds, the current result's rows are the envelope's rows in
\* the same order with the same columns in the same order, and the result's
\* row count, the stored row count and the returned value are the number of
\* rows.
C6_SameRows(tuples, lists) ==
    /\ tuples.kind = "tuple"
    /\ Len(tuples.items) = Len(lists.items)
    /\ \A i \in 1..Len(lists.items) :
         /\ tuples.items[i].kind = "tuple"
         /\ Len(tuples.items[i].items) = Len(lists.items[i].items)
         /\ \A j \in 1..Len(lists.items[i].items) :
              tuples.items[i].items[j] = lists.items[i].items[j]

C6_HasRows(envelope) ==
    /\ envelope.data.kind = "dict"
    /\ envelope.data.rows # Absent

C6_RowsRoundTrip ==
    (lastop.op = "query" /\ Ran("read") /\ C6_HasRows(resp_json)) =>
        /\ lastop.err = NoError
        /\ result # None
        /\ C6_SameRows(result.rows, resp_json.data.rows)
        /\ result.affected_rows = PyInt(Len(resp_json.data.rows.items))
        /\ affected_rows = result.affected_rows
        /\ lastop.ret = result.affected_rows

C6_Witness ==
    /\ lastop.op = "query"
    /\ lastop.err = NoError
    /\ resp_json.data =
         [kind |-> "dict", rows |-> List(<<List(<<PyInt(2), "b">>), List(<<PyInt(1), "a">>)>>)]
    /\ result.rows = Tuple(<<Tuple(<<PyInt(2), "b">>), Tuple(<<PyInt(1), "a">>)>>)
    /\ lastop.ret = PyInt(2)

\* C7: when query() materialises a validated envelope whose data is null, it
\* returns normally and the new current result has no rows and a row count
\* that is unset or zero.
C7_ExecResult ==
    (lastop.op = "query" /\ Ran("read") /\ resp_json.data = None) =>
        /\ lastop.err = NoError
        /\ result # None
        /\ result.rows = None
        /\ result.affected_rows \in {None, PyInt(0)}
        /\ lastop.ret = result.affected_rows

C7_Witness ==
    /\ lastop.op = "query"
    /\ lastop.err = NoError
    /\ resp_json.success
    /\ resp_json.data = None
    /\ result # None
    /\ result.rows = None

\* C8: a POST that raises makes the call fail with InterfaceError, and the
\* call runs neither the decoding, the validation nor the materialisation.
C8_TransportFailure ==
    \A i \in 1..Len(lastop.posts) :
        lastop.posts[i].outcome = "raise" =>
            /\ lastop.err.type = "InterfaceError"
            /\ lastop.err.args[1] = "Request proxy err"
            /\ ~Ran("json")
            /\ ~Ran("read_ok_packet")
            /\ ~Ran("read")

C8_Witness ==
    /\ lastop.op = "rollback"
    /\ Len(lastop.posts) = 1
    /\ lastop.posts[1].outcome = "raise"
    /\ lastop.err.type = "InterfaceError"
    /\ resp_json # Unset

\* C9: a response whose body is not JSON makes the call fail with
\* InterfaceError, never OperationalError, whatever the response's status,
\* and validation is not run.
C9_Undecodable(post) ==
    /\ post.outcome = "return"
    /\ resp.body.kind = "invalid"

C9_InvalidBody ==
    \A i \in 1..Len(lastop.posts) :
        C9_Undecodable(lastop.posts[i]) =>
            /\ lastop.err.type = "InterfaceError"
            /\ ~Ran("read_ok_packet")
            /\ ~Ran("read")

C9_Witness ==
    /\ Len(lastop.posts) = 1
    /\ C9_Undecodable(lastop.posts[1])
    /\ ~resp.ok
    /\ lastop.err.type = "InterfaceError"

\* The calls that dispatch a command.
Dispatching == Commands \cup {"connect"}

\* C10 as stated: a command that fails at any step leaves the current result
\* and the stored row count as they were.
C10_FailureKeepsResult ==
    [][(lastop'.op \in Dispatching /\ lastop'.err # NoError) =>
         UNCHANGED <<result, affected_rows>>]_vars

\* C10 amended: a failed command leaves the stored row count as it was; it
\* leaves the current result as it was unless it is a query() that reached
\* validation, which leaves the current result cleared.
C10_FailureClearsResult ==
    [][(lastop'.op \in Dispatching /\ lastop'.err # NoError) =>
         /\ affected_rows' = affected_rows
         /\ IF lastop'.op = "query" /\ "read_ok_packet" \in {lastop'.steps[i] : i \in 1..Len(lastop'.steps)}
            THEN result' = None
            ELSE result' = result]_vars

C10_Witness ==
    /\ lastop.op = "query"
    /\ lastop.err.type = "OperationalError"
    /\ result = None
    /\ affected_rows = PyInt(2)

\* C11 as stated: until connect() is called on it, a connection constructed
\* with defer_connect makes no POST, whatever is called on it; a construction
\* without defer_connect that passes the timeout checks dispatches the one
\* probe "select 1;" and validates what it decodes.
C11_Probe == Bytes(<<"s", "e", "l", "e", "c", "t", " ", "1", ";">>)

C11_DeferredNoContact ==
    /\ ~hist.opened => lastop.posts = <<>>
    /\ (lastop.op = "__init__" /\ lastop.err.type # "ValueError"
            /\ ~lastop.args.defer_connect) =>
         /\ hist.opened
         /\ Len(lastop.posts) = 1
         /\ lastop.posts[1].data.query = C11_Probe
         /\ lastop.posts[1].uri = query_uri
         /\ (lastop.posts[1].outcome = "return" /\ resp.body.kind = "json") =>
              Ran("read_ok_packet")

\* C12: a connect_timeout outside 1..31536000, or a read_timeout or
\* write_timeout that is given and not positive, makes __init__ fail with
\* ValueError without any POST, with or without defer_connect.
C12_BadTimeouts(args) ==
    \/ args.connect_timeout < 1
    \/ args.connect_timeout > MaxConnectTimeout
    \/ (args.read_timeout # None /\ args.read_timeout.v <= 0)
    \/ (args.write_timeout # None /\ args.write_timeout.v <= 0)

C12_TimeoutsBeforeTransport ==
    lastop.op = "__init__" =>
        IF C12_BadTimeouts(lastop.args)
        THEN /\ lastop.err.type = "ValueError"
             /\ lastop.posts = <<>>
             /\ ~hist.opened
        ELSE lastop.err.type # "ValueError"

C12_Witness ==
    /\ lastop.op = "__init__"
    /\ ~lastop.args.defer_connect
    /\ lastop.args.connect_timeout = MaxConnectTimeout + 1
    /\ lastop.err.type = "ValueError"
    /\ lastop.posts = <<>>

\* The last call made a POST and failed before validation: at the transport
\* or at the decoding.
FailedBeforeValidation ==
    /\ lastop.posts # <<>>
    /\ lastop.err # NoError
    /\ ~Ran("read_ok_packet")

\* C14 as stated: after a command that failed at the transport or at the
\* decoding the connection holds no envelope of an earlier command, neither
\* the raw response nor the decoded envelope; and a held response and a held
\* decoded envelope are one envelope, that of the same command.
C14_EnvelopeDiscarded ==
    /\ FailedBeforeValidation =>
         /\ hist.resp_json # "earlier"
         /\ lastop.posts[1].outcome = "raise" => resp = None
    /\ (lastop.posts # <<>> /\ resp # None /\ hist.resp_json # "none") =>
         /\ resp.body.kind = "json"
         /\ resp_json = resp.body.value

\* The calls that dispatch a command.
Probing == {"connect", "__init__"}

\* C15 as stated: after every successful command, the probe included, the
\* current result is a materializer created by that command.
C15_ResultReplacedByEveryCommand ==
    (lastop.op \in Commands \cup Probing /\ lastop.posts # <<>> /\ lastop.err = NoError) =>
        /\ result # None
        /\ hist.result = "last"

\* C15 amended: after every successful query() the current result is a
\* materializer created by that query after its envelope was validated; a
\* successful commit, rollback or probe creates none and leaves the current
\* result, an earlier command's or none, in place.
C15_ResultReplacedByQuery ==
    /\ []((lastop.op = "query" /\ lastop.err = NoError) =>
            /\ result # None
            /\ hist.result = "last"
            /\ lastop.steps = <<"post", "json", "read_ok_packet", "read">>)
    /\ [][(lastop'.op \in {"commit", "rollback", "connect"} /\ lastop'.err = NoError) =>
            /\ result' = result
            /\ hist'.result = IF result = None THEN "none" ELSE "earlier"]_vars

C15_Witness ==
    /\ lastop.op = "commit"
    /\ lastop.err = NoError
    /\ result # None
    /\ hist.result = "earlier"

\* C16 as stated: when query() reads a validated envelope whose data member
\* is missing, or is neither null nor an object with a rows array, it fails
\* with InterfaceError and stores no result.
C16_Unusable(data) ==
    \/ data = Absent
    \/ /\ data # None
       /\ ~(data.kind = "dict" /\ data.rows # Absent)

C16_MalformedData ==
    (lastop.op = "query" /\ Ran("read") /\ C16_Unusable(resp_json.data)) =>
        /\ lastop.err.type = "InterfaceError"
        /\ result = None

\* C17: whenever a call validates or materialises an envelope, that envelope
\* was decoded by the same call from the response to the POST it made; an
\* envelope an earlier command left is never inspected.
C17_OwnEnvelopeInspected ==
    (Ran("read_ok_packet") \/ Ran("read")) =>
        /\ Ran("json")
        /\ Len(lastop.posts) = 1
        /\ lastop.posts[1].outcome = "return"
        /\ hist.resp_json = "last"
        /\ resp.body.kind = "json"
        /\ resp_json = resp.body.value

C17_Witness ==
    /\ FailedBeforeValidation
    /\ hist.resp_json = "earlier"
    /\ resp_json # Unset
    /\ ~Ran("read")

\* C18: connect() leaves the connection not closed with the handle held also
\* when its probe fails; the commands called next are then POSTed, not
\* rejected, the first close() succeeds and the one after it fails.
C18_FailedProbe ==
    /\ lastop.op \in Probing
    /\ lastop.posts # <<>>
    /\ lastop.err # NoError

C18_FailedOpenStaysOpen ==
    /\ [](C18_FailedProbe => (~closed /\ sock = PyBool(TRUE)))
    /\ [][(C18_FailedProbe /\ lastop'.op \in Commands) =>
            /\ Len(lastop'.posts) = 1
            /\ lastop'.err # ClosedError]_vars
    /\ [][(C18_FailedProbe /\ lastop'.op = "close") =>
            /\ lastop'.err = NoError
            /\ closed'
            /\ sock' = None
            /\ close(Conn').err.type = "Error"]_vars

C18_Witness ==
    /\ lastop.op = "connect"
    /\ lastop.err.type = "OperationalError"
    /\ ~closed
    /\ sock = PyBool(TRUE)

\* C19: whenever the connection holds a current result, the stored row
\* count is that result's row count, and when the result has rows it is the
\* number of rows.
C19_CountIsRowsReturned ==
    (result # None /\ result # Unset) =>
        /\ affected_rows = result.affected_rows
        /\ result.rows # None => affected_rows = PyInt(Len(result.rows.items))

C19_Witness ==
    /\ lastop.op = "rollback"
    /\ lastop.err.type = "InterfaceError"
    /\ result # None
    /\ result.rows # None
    /\ affected_rows = PyInt(2)

\* C13: with two callers interleaving query() and close() on one Connection
\* a call can go wrong only through the other caller's steps: a query() during
\* which no other caller took a step makes no POST with _closed true, inspects
\* only the envelope of its own command, returns that command's row count and
\* raises nothing but InterfaceError.
C13_AloneIsSafe ==
    \A k \in Callers :
        (callers[k].op = "query" /\ callers[k].alone) =>
            /\ ~callers[k].late
            /\ callers[k].seen \in {k, NotSeen}
            /\ callers[k].err.type \in {"none", "InterfaceError"}
            /\ (callers[k].pc = "idle" /\ callers[k].err = NoError) =>
                 /\ callers[k].seen = k
                 /\ callers[k].ret = PyInt(k)

\* Both races have happened: a query() inspected the envelope of the other
\* caller's command and returned that command's row count, and a POST was
\* made after the other caller's close() had set _closed.
C13_Witness ==
    /\ conc.stolen
    /\ conc.late_post

====
